---- MODULE Spec2Model ----
(***************************************************************************)
(* Material evaluation of pbrt (src/pbrt/materials.h): the material        *)
(* variants, their CanEvaluateTextures / GetBSDF / GetBSSRDF methods, the  *)
(* Mix variant's ChooseMaterial and the dispatch methods of Material.      *)
(*                                                                         *)
(* Float values are fixed-point numbers: the integer x stands for x / One. *)
(* Texture results and scale factors are multiples of Q = sqrt(One), so a  *)
(* product of two of them is exact.                                        *)
(***************************************************************************)
EXTENDS Integers, Sequences, FiniteSets, TLC

\* ---------------------------------------------------------------- bounds
\* resolution of texture values: they are the multiples of 1/Q
Q == 2
\* number of spectral samples carried by a SampledSpectrum / SampledWavelengths
NSamples == 2
\* largest coordinate of the shading point, direction and uv of a context
MaxCoord == 1
\* capacity of the scratch buffer, in allocations
MaxAlloc == 1
\* number of shading events in flight at a time
NThreads == 2

One == Q * Q

\* ------------------------------------------------------- value domains
Val(k) == (k - 1) * Q
NVals == Q + 3
\* -1/Q, 0, 1/Q, ..., 1, 1 + 1/Q
FloatVals == {Val(k) : k \in 0..(NVals - 1)}
\* spectral texture results: every value occurs in every component
Ramp(k) == [i \in 1..NSamples |-> Val((k + i - 1) % NVals)]
SampledSpectra == {Ramp(k) : k \in 0..(NVals - 1)}
\* the results of two spectral textures at one point
SpectrumPairs == {<<Ramp(k), Ramp((k + d) % NVals)>> : k \in 0..(NVals - 1), d \in 0..1}
RoughVals == {0, Q}
\* the sigma texture returns an angle in degrees
SigmaVals == {-One, 45 * One, 90 * One, 91 * One}
ScaleVals == {-Q, Q, One, One + Q}
EtaVals == {0, One, One + Q}

Null == [type |-> "null"]

\* ------------------------------------------ collaborators (pbrt/util/...)
Clamp(v, lo, hi) == IF v < lo THEN lo ELSE IF v > hi THEN hi ELSE v
ClampSpectrum(s, lo, hi) == [i \in DOMAIN s |-> Clamp(s[i], lo, hi)]
ClampZero(s) == [i \in DOMAIN s |-> IF s[i] < 0 THEN 0 ELSE s[i]]
FMul(a, b) == (a * b) \div One
ScaleSpectrum(a, s) == [i \in DOMAIN s |-> FMul(a, s[i])]
ConstantSampledSpectrum(c) == [i \in 1..NSamples |-> c]

\* TrowbridgeReitzDistribution::RoughnessToAlpha is sqrt(roughness): the root
\* is kept exact, as the number it is the root of
RoughnessToAlpha(x) == [sqrt |-> x]
TrowbridgeReitzDistribution(ax, ay) == [alpha_x |-> ax, alpha_y |-> ay]

\* A Spectrum is a tagged pointer to one of several representations; v[w] is
\* its value at wavelength w.
Wavelengths == 1..NSamples
Spectra ==
    {[tag |-> "ConstantSpectrum", v |-> [w \in Wavelengths |-> c]] : c \in EtaVals}
    \cup {[tag |-> "PiecewiseLinearSpectrum", v |-> f] : f \in [Wavelengths -> EtaVals]}
SpectrumEval(s, w) == s.v[w]
IsConstantSpectrum(s) == s.tag = "ConstantSpectrum"
\* the spectrum takes the same value at every wavelength
WavelengthConstant(s) == \A w1, w2 \in Wavelengths : s.v[w1] = s.v[w2]

\* SampledWavelengths
PdfFresh == NSamples * One
FreshWavelengths ==
    [lambda |-> [i \in 1..NSamples |-> i], pdf |-> [i \in 1..NSamples |-> PdfFresh]]
SecondaryTerminated(lam) == \A i \in 2..NSamples : lam.pdf[i] = 0
TerminateSecondary(lam) ==
    IF SecondaryTerminated(lam) THEN lam
    ELSE [lam EXCEPT !.pdf = [i \in 1..NSamples |->
                                 IF i = 1 THEN lam.pdf[1] \div NSamples ELSE 0]]

\* HashFloat(p, wo, m0, m1): a value in [0, 1)
HashFloat(p, wo, m0, m1) == (p + 2 * wo + 3 * m0 + m1) % One

\* the scattering-function handle
BSDF(ns, dpdus, bxdf) == [type |-> "BSDF", ns |-> ns, dpdus |-> dpdus, bxdf |-> bxdf]
\* BSSRDFTable filled by ComputeBeamDiffusionBSSRDF(g, eta, &table)
ComputeBeamDiffusionBSSRDF(g, eta) == [g |-> g, eta |-> eta]
NoTable == [g |-> 0, eta |-> 0]

\* ------------------------------------------------------------ contexts
Contexts ==
    {[p |-> p, wo |-> MaxCoord - p, uv |-> uv, n |-> p + 1, ns |-> p + 1,
      dpdus |-> p + 2] : p \in 0..MaxCoord, uv \in {0, One}}

\* ----------------------------------------------------------- materials
\* A material instance: its variant, the textures it holds (tex: the non-null
\* ones), and its scalar parameters. Fields a variant does not have keep a
\* placeholder.
Mtl(kind, tex, etaSpec, eta, scale, remap, mats, table) ==
    [kind |-> kind, tex |-> tex, etaSpec |-> etaSpec, eta |-> eta, scale |-> scale,
     remapRoughness |-> remap, materials |-> mats, table |-> table,
     displacement |-> Null, normalMap |-> Null]
\* the material constructed with a displacement texture and a normal map
WithPerturbation(m, displacement, normalMap) ==
    [m EXCEPT !.displacement = displacement, !.normalMap = normalMap]
NoSpectrum == [tag |-> "ConstantSpectrum", v |-> [w \in Wavelengths |-> One]]
NoMaterials == <<0, 0>>

DielectricMaterial(uRoughness, vRoughness, eta, remapRoughness) ==
    Mtl("Dielectric", {"uRoughness", "vRoughness"}, eta, One, One, remapRoughness,
        NoMaterials, NoTable)
ThinDielectricMaterial(eta) ==
    Mtl("ThinDielectric", {}, eta, One, One, FALSE, NoMaterials, NoTable)
MixMaterial(m, amount) ==
    Mtl("Mix", {"amount"}, NoSpectrum, One, One, FALSE, <<m[1], m[2]>>, NoTable)
HairMaterial(tex) ==
    Mtl("Hair", tex, NoSpectrum, One, One, FALSE, NoMaterials, NoTable)
DiffuseMaterial(reflectance, sigma) ==
    Mtl("Diffuse", {"reflectance", "sigma"}, NoSpectrum, One, One, FALSE, NoMaterials,
        NoTable)
ConductorMaterial(tex, remapRoughness) ==
    Mtl("Conductor", tex, NoSpectrum, One, One, remapRoughness, NoMaterials, NoTable)
CoatedDiffuseMaterial(tex) ==
    Mtl("CoatedDiffuse", tex, NoSpectrum, One, One, FALSE, NoMaterials, NoTable)
CoatedConductorMaterial(tex) ==
    Mtl("CoatedConductor", tex, NoSpectrum, One, One, FALSE, NoMaterials, NoTable)
SubsurfaceMaterial(scale, tex, g, eta, remapRoughness) ==
    Mtl("Subsurface", tex \cup {"uRoughness", "vRoughness"}, NoSpectrum, eta, scale,
        remapRoughness, NoMaterials, ComputeBeamDiffusionBSSRDF(g, eta))
DiffuseTransmissionMaterial(reflectance, transmittance, sigma, scale) ==
    Mtl("DiffuseTransmission", {"reflectance", "transmittance", "sigma"}, NoSpectrum,
        One, scale, FALSE, NoMaterials, NoTable)
MeasuredMaterial ==
    Mtl("Measured", {}, NoSpectrum, One, One, FALSE, NoMaterials, NoTable)

\* The subsurface variant holds the coefficient pair, or reflectance and mean
\* free path (what GetBSSRDF's DCHECK(reflectance && mfp) requires otherwise).
SubsurfaceTextures ==
    {{"sigma_a", "sigma_s"}, {"reflectance", "mfp"}, {"sigma_a", "reflectance", "mfp"},
     {"sigma_a", "sigma_s", "reflectance", "mfp"}}

\* the materials of the scene: every variant, the dielectrics with a constant
\* and with a varying index of refraction, the subsurface variant with each
\* choice of textures
Scene ==
    {DielectricMaterial("uRoughness", "vRoughness", s, FALSE) :
        s \in {sp \in Spectra : sp.v[1] = One + Q /\ WavelengthConstant(sp)}}
    \cup {ThinDielectricMaterial(s) :
            s \in {sp \in Spectra : sp.v[1] = One + Q /\ IsConstantSpectrum(sp)}}
    \cup {MixMaterial(m, "amount") : m \in {<<1, 2>>, <<2, 1>>}}
    \cup {HairMaterial({"sigma_a", "color", "eumelanin", "pheomelanin", "eta", "beta_m",
                        "beta_n", "alpha"})}
    \cup {DiffuseMaterial("reflectance", "sigma")}
    \cup {ConductorMaterial({"eta", "k", "uRoughness", "vRoughness"}, FALSE)}
    \cup {CoatedDiffuseMaterial({"reflectance", "albedo", "uRoughness", "vRoughness",
                                 "thickness", "g"})}
    \cup {CoatedConductorMaterial({"interfaceURoughness", "interfaceVRoughness",
                                   "thickness", "g", "conductorURoughness",
                                   "conductorVRoughness", "conductorEta", "k",
                                   "albedo"})}
    \cup {SubsurfaceMaterial(One, t, 0, One + Q, FALSE) : t \in SubsurfaceTextures}
    \cup {DiffuseTransmissionMaterial("reflectance", "transmittance", "sigma", One)}
    \cup {MeasuredMaterial}

\* every variant that builds a dielectric scattering function, with every
\* index of refraction
DielectricScene ==
    {DielectricMaterial("uRoughness", "vRoughness", s, r) : s \in Spectra, r \in BOOLEAN}
    \cup {ThinDielectricMaterial(s) : s \in Spectra}
    \cup {SubsurfaceMaterial(One, {"sigma_a", "sigma_s"}, 0, e, r) :
            e \in EtaVals, r \in BOOLEAN}

\* the diffuse family, with every scale factor
DiffuseScene ==
    {DiffuseMaterial("reflectance", "sigma")}
    \cup {DiffuseTransmissionMaterial("reflectance", "transmittance", "sigma", sc) :
            sc \in ScaleVals}

\* ------------------------------------------------- texture evaluator
\* A texture evaluator is given by the textures it cannot evaluate.
\* texEval.CanEvaluate(ftex, stex): every non-null texture listed is evaluable.
\* The result also carries the textures that were passed to the query.
CanEvaluate(texEval, m, ftex, stex) ==
    [declared |-> ftex \cup stex,
     result |-> \A t \in (ftex \cup stex) \cap m.tex : t \notin texEval.unsupported]
Evaluators(m) == {[unsupported |-> {}]} \cup {[unsupported |-> {t}] : t \in m.tex}

\* outcome of a call: the value returned (Null when nothing is returned), the
\* wavelengths after the call, and whether the call ended in LOG_FATAL
Outcome(ret, lam, fatal) == [ret |-> ret, lambda |-> lam, fatal |-> fatal]

\* the outcome of a call, and the textures that texEval was called with
OutcomeWith(ret, lam, fatal, evaluated) ==
    [ret |-> ret, lambda |-> lam, fatal |-> fatal, evaluated |-> evaluated]

\* --------------------------------------------------- DielectricMaterial
DielectricMaterial_CanEvaluateTextures(m, texEval) ==
    CanEvaluate(texEval, m, {"uRoughness", "vRoughness"}, {})

DielectricMaterial_GetBSSRDF(m, tv, c, lam, gpu) == Outcome(Null, lam, FALSE)

DielectricMaterial_HasSubsurfaceScattering == FALSE

\* the zero index of refraction is not replaced
DielectricMaterial_GetBSDF_KeepsZero(m, tv, c, lam, gpu) ==
    LET eta0 == SpectrumEval(m.etaSpec, lam.lambda[1])
        lam1 == IF ~IsConstantSpectrum(m.etaSpec) THEN TerminateSecondary(lam) ELSE lam
        urough == IF m.remapRoughness THEN RoughnessToAlpha(tv.uRoughness)
                  ELSE tv.uRoughness
        vrough == IF m.remapRoughness THEN RoughnessToAlpha(tv.vRoughness)
                  ELSE tv.vRoughness
        distrib == TrowbridgeReitzDistribution(urough, vrough)
        bxdf == [type |-> "DielectricBxDF", eta |-> eta0, distrib |-> distrib]
    IN  Outcome(BSDF(c.ns, c.dpdus, bxdf), lam1, FALSE)

DielectricMaterial_GetBSDF(m, tv, c, lam, gpu) ==
    LET eta0 == SpectrumEval(m.etaSpec, lam.lambda[1])
        lam1 == IF ~IsConstantSpectrum(m.etaSpec) THEN TerminateSecondary(lam) ELSE lam
        sampledEta == IF eta0 = 0 THEN One ELSE eta0
        urough == IF m.remapRoughness THEN RoughnessToAlpha(tv.uRoughness)
                  ELSE tv.uRoughness
        vrough == IF m.remapRoughness THEN RoughnessToAlpha(tv.vRoughness)
                  ELSE tv.vRoughness
        distrib == TrowbridgeReitzDistribution(urough, vrough)
        bxdf == [type |-> "DielectricBxDF", eta |-> sampledEta, distrib |-> distrib]
    IN  Outcome(BSDF(c.ns, c.dpdus, bxdf), lam1, FALSE)

\* ----------------------------------------------- ThinDielectricMaterial
ThinDielectricMaterial_CanEvaluateTextures(m, texEval) ==
    [declared |-> {}, result |-> TRUE]

\* the secondary wavelengths are never terminated
ThinDielectricMaterial_GetBSDF_KeepsSecondary(m, tv, c, lam, gpu) ==
    LET eta0 == SpectrumEval(m.etaSpec, lam.lambda[1])
        sampledEta == IF eta0 = 0 THEN One ELSE eta0
        bxdf == [type |-> "ThinDielectricBxDF", eta |-> sampledEta]
    IN  Outcome(BSDF(c.ns, c.dpdus, bxdf), lam, FALSE)

ThinDielectricMaterial_GetBSDF(m, tv, c, lam, gpu) ==
    LET eta0 == SpectrumEval(m.etaSpec, lam.lambda[1])
        lam1 == IF ~IsConstantSpectrum(m.etaSpec) THEN TerminateSecondary(lam) ELSE lam
        sampledEta == IF eta0 = 0 THEN One ELSE eta0
        bxdf == [type |-> "ThinDielectricBxDF", eta |-> sampledEta]
    IN  Outcome(BSDF(c.ns, c.dpdus, bxdf), lam1, FALSE)

ThinDielectricMaterial_GetBSSRDF(m, tv, c, lam, gpu) == Outcome(Null, lam, FALSE)

ThinDielectricMaterial_HasSubsurfaceScattering == FALSE

\* ---------------------------------------------------------- MixMaterial
\* the call returns on the CPU as well
MixMaterial_GetBSSRDF_Returns(m, tv, c, lam, gpu) == Outcome(Null, lam, FALSE)

\* LOG_FATAL is compiled out of GPU code
MixMaterial_GetBSSRDF(m, tv, c, lam, gpu) == Outcome(Null, lam, ~gpu)

MixMaterial_HasSubsurfaceScattering == FALSE

MixMaterial_CanEvaluateTextures(m, texEval) == CanEvaluate(texEval, m, {"amount"}, {})

\* an amount of exactly 0 goes to the hash
MixMaterial_ChooseMaterial_StrictZero(m, tv, c) ==
    LET amt == tv.amount
        u == HashFloat(c.p, c.wo, m.materials[1], m.materials[2])
    IN  IF amt < 0 THEN [ret |-> m.materials[1], hashed |-> FALSE]
        ELSE IF amt >= One THEN [ret |-> m.materials[2], hashed |-> FALSE]
        ELSE [ret |-> IF amt < u THEN m.materials[1] ELSE m.materials[2],
              hashed |-> TRUE]

\* the hash takes the uv of the context for the outgoing direction
MixMaterial_ChooseMaterial_HashesUV(m, tv, c) ==
    LET amt == tv.amount
        u == HashFloat(c.p, c.uv \div One, m.materials[1], m.materials[2])
    IN  IF amt <= 0 THEN [ret |-> m.materials[1], hashed |-> FALSE]
        ELSE IF amt >= One THEN [ret |-> m.materials[2], hashed |-> FALSE]
        ELSE [ret |-> IF amt < u THEN m.materials[1] ELSE m.materials[2],
              hashed |-> TRUE]

\* the comparison with the hash is reversed
MixMaterial_ChooseMaterial_Reversed(m, tv, c) ==
    LET amt == tv.amount
        u == HashFloat(c.p, c.wo, m.materials[1], m.materials[2])
    IN  IF amt <= 0 THEN [ret |-> m.materials[1], hashed |-> FALSE]
        ELSE IF amt >= One THEN [ret |-> m.materials[2], hashed |-> FALSE]
        ELSE [ret |-> IF amt > u THEN m.materials[1] ELSE m.materials[2],
              hashed |-> TRUE]

\* the material chosen, and whether HashFloat was computed
MixMaterial_ChooseMaterial(m, tv, c) ==
    LET amt == tv.amount
        u == HashFloat(c.p, c.wo, m.materials[1], m.materials[2])
    IN  IF amt <= 0 THEN [ret |-> m.materials[1], hashed |-> FALSE]
        ELSE IF amt >= One THEN [ret |-> m.materials[2], hashed |-> FALSE]
        ELSE [ret |-> IF amt < u THEN m.materials[1] ELSE m.materials[2],
              hashed |-> TRUE]

\* the call returns the empty handle on the CPU as well
MixMaterial_GetBSDF_Returns(m, tv, c, lam, gpu) == Outcome(Null, lam, FALSE)

MixMaterial_GetBSDF(m, tv, c, lam, gpu) == Outcome(Null, lam, ~gpu)

\* --------------------------------------------------------- HairMaterial
HairMaterial_CanEvaluateTextures(m, texEval) ==
    CanEvaluate(texEval, m,
                {"eumelanin", "pheomelanin", "eta", "beta_m", "beta_n", "alpha"},
                {"sigma_a", "color"})

\* std::max<Float>(1e-2, x), as a fraction
MaxHundredth(x) == IF 100 * x < One THEN <<1, 100>> ELSE <<x, One>>

\* the color texture is looked at before the absorption texture
HairMaterial_GetBSDF_ColorFirst(m, tv, c, lam, gpu) ==
    LET bm == MaxHundredth(tv.beta_m)
        bn == MaxHundredth(tv.beta_n)
        a == tv.alpha
        e == tv.eta
        h == 2 * c.uv - One
        sig_a ==
            IF "color" \in m.tex
            THEN [from |-> "SigmaAFromReflectance",
                  c |-> ClampSpectrum(tv.color, 0, One), beta_n |-> bn,
                  lambda |-> lam.lambda]
            ELSE IF "sigma_a" \in m.tex
            THEN [from |-> "sigma_a", v |-> ClampZero(tv.sigma_a)]
            ELSE [from |-> "SigmaAFromConcentration",
                  ce |-> IF "eumelanin" \in m.tex /\ tv.eumelanin > 0
                         THEN tv.eumelanin ELSE 0,
                  cp |-> IF "pheomelanin" \in m.tex /\ tv.pheomelanin > 0
                         THEN tv.pheomelanin ELSE 0,
                  lambda |-> lam.lambda]
        evaluated ==
            {"beta_m", "beta_n", "alpha", "eta"}
            \cup (IF "color" \in m.tex THEN {"color"}
                  ELSE IF "sigma_a" \in m.tex THEN {"sigma_a"}
                  ELSE {"eumelanin", "pheomelanin"} \cap m.tex)
        bxdf == [type |-> "HairBxDF", h |-> h, eta |-> e, sigma_a |-> sig_a,
                 beta_m |-> bm, beta_n |-> bn, alpha |-> a]
    IN  IF {"sigma_a", "color", "eumelanin", "pheomelanin"} \cap m.tex = {}
        THEN OutcomeWith(Null, lam, TRUE, evaluated)
        ELSE OutcomeWith(BSDF(c.ns, c.dpdus, bxdf), lam, FALSE, evaluated)

\* tv: the values of the textures at the context. CHECK(eumelanin ||
\* pheomelanin) ends the call when it fails; the conversions of HairBxDF are
\* kept as their arguments.
HairMaterial_GetBSDF(m, tv, c, lam, gpu) ==
    LET bm == MaxHundredth(tv.beta_m)
        bn == MaxHundredth(tv.beta_n)
        a == tv.alpha
        e == tv.eta
        h == 2 * c.uv - One
        sig_a ==
            IF "sigma_a" \in m.tex
            THEN [from |-> "sigma_a", v |-> ClampZero(tv.sigma_a)]
            ELSE IF "color" \in m.tex
            THEN [from |-> "SigmaAFromReflectance",
                  c |-> ClampSpectrum(tv.color, 0, One), beta_n |-> bn,
                  lambda |-> lam.lambda]
            ELSE [from |-> "SigmaAFromConcentration",
                  ce |-> IF "eumelanin" \in m.tex /\ tv.eumelanin > 0
                         THEN tv.eumelanin ELSE 0,
                  cp |-> IF "pheomelanin" \in m.tex /\ tv.pheomelanin > 0
                         THEN tv.pheomelanin ELSE 0,
                  lambda |-> lam.lambda]
        evaluated ==
            {"beta_m", "beta_n", "alpha", "eta"}
            \cup (IF "sigma_a" \in m.tex THEN {"sigma_a"}
                  ELSE IF "color" \in m.tex THEN {"color"}
                  ELSE {"eumelanin", "pheomelanin"} \cap m.tex)
        bxdf == [type |-> "HairBxDF", h |-> h, eta |-> e, sigma_a |-> sig_a,
                 beta_m |-> bm, beta_n |-> bn, alpha |-> a]
    IN  IF {"sigma_a", "color", "eumelanin", "pheomelanin"} \cap m.tex = {}
        THEN OutcomeWith(Null, lam, TRUE, evaluated)
        ELSE OutcomeWith(BSDF(c.ns, c.dpdus, bxdf), lam, FALSE, evaluated)

HairMaterial_GetBSSRDF(m, tv, c, lam, gpu) == Outcome(Null, lam, FALSE)

HairMaterial_HasSubsurfaceScattering == FALSE

\* ------------------------------------------------------ DiffuseMaterial
DiffuseMaterial_GetBSSRDF(m, tv, c, lam, gpu) == Outcome(Null, lam, FALSE)

DiffuseMaterial_HasSubsurfaceScattering == FALSE

DiffuseMaterial_CanEvaluateTextures(m, texEval) ==
    CanEvaluate(texEval, m, {"sigma"}, {"reflectance"})

DiffuseMaterial_GetBSDF(m, tv, c, lam, gpu) ==
    LET r == ClampSpectrum(tv.reflectance, 0, One)
        sig == Clamp(tv.sigma, 0, 90 * One)
        bxdf == [type |-> "RoughDiffuseBxDF", R |-> r, T |-> ConstantSampledSpectrum(0),
                 sigma |-> sig]
    IN  Outcome(BSDF(c.ns, c.dpdus, bxdf), lam, FALSE)

\* ---------------------------------------------------- ConductorMaterial
ConductorMaterial_CanEvaluateTextures(m, texEval) ==
    CanEvaluate(texEval, m, {"uRoughness", "vRoughness"}, {"eta", "k", "reflectance"})

\* the operands of the quotient are exchanged
ConductorMaterial_K_Inverted(r) ==
    [nan |-> r < 0, num |-> 4 * (IF One - r < 0 THEN 0 ELSE One - r), den |-> r]

\* a component of ks = 2 * Sqrt(r) / Sqrt(ClampZero(SampledSpectrum(1) - r)),
\* kept as its square num / den; den = 0 with num > 0 is +infinity; the root
\* of a negative number is no number
ConductorMaterial_K(r) ==
    [nan |-> r < 0, num |-> 4 * r, den |-> IF One - r < 0 THEN 0 ELSE One - r]

\* tv: the values of the textures at the context
ConductorMaterial_GetBSDF(m, tv, c, lam, gpu) ==
    LET uRough == IF m.remapRoughness THEN RoughnessToAlpha(tv.uRoughness)
                  ELSE tv.uRoughness
        vRough == IF m.remapRoughness THEN RoughnessToAlpha(tv.vRoughness)
                  ELSE tv.vRoughness
        etas == IF "eta" \in m.tex THEN tv.eta ELSE ConstantSampledSpectrum(One)
        ks == IF "eta" \in m.tex THEN [from |-> "k", v |-> tv.k]
              ELSE [from |-> "reflectance",
                    v |-> [i \in 1..NSamples |-> ConductorMaterial_K(tv.reflectance[i])]]
        evaluated ==
            {"uRoughness", "vRoughness"}
            \cup (IF "eta" \in m.tex THEN {"eta", "k"} ELSE {"reflectance"})
        distrib == TrowbridgeReitzDistribution(uRough, vRough)
        bxdf == [type |-> "ConductorBxDF", distrib |-> distrib, eta |-> etas, k |-> ks]
    IN  OutcomeWith(BSDF(c.ns, c.dpdus, bxdf), lam, FALSE, evaluated)

ConductorMaterial_GetBSSRDF(m, tv, c, lam, gpu) == Outcome(Null, lam, FALSE)

ConductorMaterial_HasSubsurfaceScattering == FALSE

\* ------------------------------------------------ CoatedDiffuseMaterial
CoatedDiffuseMaterial_CanEvaluateTextures(m, texEval) ==
    CanEvaluate(texEval, m, {"uRoughness", "vRoughness", "thickness", "g"},
                {"reflectance", "albedo"})

CoatedDiffuseMaterial_GetBSSRDF(m, tv, c, lam, gpu) == Outcome(Null, lam, FALSE)

CoatedDiffuseMaterial_HasSubsurfaceScattering == FALSE

\* ---------------------------------------------- CoatedConductorMaterial
CoatedConductorMaterial_CanEvaluateTextures(m, texEval) ==
    CanEvaluate(texEval, m,
                {"interfaceURoughness", "interfaceVRoughness", "thickness", "g",
                 "conductorURoughness", "conductorVRoughness"},
                {"conductorEta", "k", "reflectance", "albedo"})

CoatedConductorMaterial_GetBSSRDF(m, tv, c, lam, gpu) == Outcome(Null, lam, FALSE)

CoatedConductorMaterial_HasSubsurfaceScattering == FALSE

\* --------------------------------------------------- SubsurfaceMaterial
SubsurfaceMaterial_CanEvaluateTextures(m, texEval) ==
    CanEvaluate(texEval, m, {"uRoughness", "vRoughness"}, {"sigma_a", "sigma_s"})

SubsurfaceMaterial_GetBSDF(m, tv, c, lam, gpu) ==
    LET urough == IF m.remapRoughness THEN RoughnessToAlpha(tv.uRoughness)
                  ELSE tv.uRoughness
        vrough == IF m.remapRoughness THEN RoughnessToAlpha(tv.vRoughness)
                  ELSE tv.vRoughness
        distrib == TrowbridgeReitzDistribution(urough, vrough)
        bxdf == [type |-> "DielectricBxDF", eta |-> m.eta, distrib |-> distrib]
    IN  Outcome(BSDF(c.ns, c.dpdus, bxdf), lam, FALSE)

\* the textures GetBSSRDF reads: the coefficient pair when both are held,
\* else mean free path and reflectance
SubsurfaceMaterial_UsesCoefficients(m) == {"sigma_a", "sigma_s"} \subseteq m.tex

\* SubsurfaceFromDiffuse(table, r, mfree, &sig_a, &sig_s) inverts the table; the
\* coefficients it yields are kept as the inversion's arguments.
SubsurfaceMaterial_GetBSSRDF(m, tv, c, lam, gpu) ==
    LET coeffs ==
            IF SubsurfaceMaterial_UsesCoefficients(m)
            THEN [from |-> "textures",
                  sig_a |-> ClampZero(ScaleSpectrum(m.scale, tv.sigma_a)),
                  sig_s |-> ClampZero(ScaleSpectrum(m.scale, tv.sigma_s))]
            ELSE [from |-> "SubsurfaceFromDiffuse",
                  mfree |-> ClampZero(ScaleSpectrum(m.scale, tv.mfp)),
                  r |-> ClampSpectrum(tv.reflectance, 0, One)]
        bssrdf == [type |-> "TabulatedBSSRDF", po |-> c.p, ns |-> c.ns, wo |-> c.wo,
                   eta |-> m.eta, coeffs |-> coeffs, table |-> m.table]
    IN  Outcome(bssrdf, lam, FALSE)

SubsurfaceMaterial_HasSubsurfaceScattering == TRUE

\* ------------------------------------------ DiffuseTransmissionMaterial
DiffuseTransmissionMaterial_CanEvaluateTextures(m, texEval) ==
    CanEvaluate(texEval, m, {"sigma"}, {"reflectance", "transmittance"})

\* the transmittance is clamped from below only
DiffuseTransmissionMaterial_GetBSDF_ClampsZero(m, tv, c, lam, gpu) ==
    LET r == ClampSpectrum(ScaleSpectrum(m.scale, tv.reflectance), 0, One)
        t == ClampZero(ScaleSpectrum(m.scale, tv.transmittance))
        s == tv.sigma
        bxdf == [type |-> "RoughDiffuseBxDF", R |-> r, T |-> t, sigma |-> s]
    IN  Outcome(BSDF(c.ns, c.dpdus, bxdf), lam, FALSE)

DiffuseTransmissionMaterial_GetBSDF(m, tv, c, lam, gpu) ==
    LET r == ClampSpectrum(ScaleSpectrum(m.scale, tv.reflectance), 0, One)
        t == ClampSpectrum(ScaleSpectrum(m.scale, tv.transmittance), 0, One)
        s == tv.sigma
        bxdf == [type |-> "RoughDiffuseBxDF", R |-> r, T |-> t, sigma |-> s]
    IN  Outcome(BSDF(c.ns, c.dpdus, bxdf), lam, FALSE)

DiffuseTransmissionMaterial_GetBSSRDF(m, tv, c, lam, gpu) == Outcome(Null, lam, FALSE)

DiffuseTransmissionMaterial_HasSubsurfaceScattering == FALSE

\* ----------------------------------------------------- MeasuredMaterial
MeasuredMaterial_GetBSDF(m, tv, c, lam, gpu) ==
    LET bxdf == [type |-> "MeasuredBxDF", lambda |-> lam.lambda]
    IN  Outcome(BSDF(c.ns, c.dpdus, bxdf), lam, FALSE)

MeasuredMaterial_CanEvaluateTextures(m, texEval) == [declared |-> {}, result |-> TRUE]

MeasuredMaterial_GetBSSRDF(m, tv, c, lam, gpu) == Outcome(Null, lam, FALSE)

MeasuredMaterial_HasSubsurfaceScattering == FALSE

\* ----------------------------------------------------------------- Bump
\* The Float values of Bump are fixed-point numbers with FOne units to 1, so
\* that .0005f is MinShift units and a smaller positive number is one unit.
FOne == 2000 * Q
MinShift == FOne \div 2000

Abs(x) == IF x < 0 THEN -x ELSE x
RECURSIVE GCD(_, _)
GCD(a, b) == IF b = 0 THEN a ELSE GCD(b, a % b)

\* Vector3f / Normal3f (pbrt/util/vecmath.h): triples of Float
Vector3f(x, y, z) == <<x, y, z>>
ZeroVector == Vector3f(0, 0, 0)
VAdd(a, b) == [i \in 1..3 |-> a[i] + b[i]]
VSub(a, b) == [i \in 1..3 |-> a[i] - b[i]]
\* Float * Vector3f, both fixed-point
VScale(s, v) == [i \in 1..3 |-> (s * v[i]) \div FOne]
\* integer * Vector3f
VTimes(k, v) == [i \in 1..3 |-> k * v[i]]
VDot(a, b) == a[1] * b[1] + a[2] * b[2] + a[3] * b[3]
Cross(a, b) ==
    Vector3f(a[2] * b[3] - a[3] * b[2], a[3] * b[1] - a[1] * b[3],
             a[1] * b[2] - a[2] * b[1])
\* the shortest integer vector of the direction of v
Direction(v) ==
    LET g == GCD(GCD(Abs(v[1]), Abs(v[2])), Abs(v[3]))
    IN  IF g = 0 THEN v ELSE [i \in 1..3 |-> v[i] \div g]
\* LengthSquared(v), of a vector given in units of 1/FOne
LengthSquared(v) == VDot(v, v)

\* A vector that Normalize and Length produce is not a fixed-point triple in
\* general: the tangents Bump writes are kept as a direction and a squared
\* length, which determine the vector. nan: the components are 0/0.
Tangent(dir, len2) ==
    IF len2 = 0 THEN [nan |-> FALSE, dir |-> ZeroVector, len2 |-> 0]
    ELSE [nan |-> FALSE, dir |-> Direction(dir), len2 |-> len2]
TangentOf(v) == Tangent(v, LengthSquared(v))
NaNVector == [nan |-> TRUE, dir |-> ZeroVector, len2 |-> 0]

\* GramSchmidt(v, w) = v - Dot(v, w) * w for the unit vector w = d / |d|,
\* scaled by |d|^2 > 0: the direction of the result
GramSchmidt(v, d) == VSub(VTimes(VDot(d, d), v), VTimes(VDot(v, d), d))

\* Frame::FromZ(n) for a unit normal along an axis: the x and y axes that
\* CoordinateSystem(n, &x, &y) yields; FromLocal(v) = v.x x + v.y y + v.z z
FrameFromZ(n) ==
    LET z == Direction(n)
        sign == IF z[3] < 0 THEN -1 ELSE 1
    IN  [x |-> IF z[1] # 0 THEN Vector3f(0, 0, -sign * z[1]) ELSE Vector3f(1, 0, 0),
         y |-> IF z[2] # 0 THEN Vector3f(0, 0, -z[2]) ELSE Vector3f(0, sign, 0),
         z |-> z]
FromLocal(frame, v) ==
    VAdd(VAdd(VTimes(v[1], frame.x), VTimes(v[2], frame.y)), VTimes(v[3], frame.z))

\* FloatTexture displacement: a constant, or a ramp of slope k along u or v
Displacements ==
    {[type |-> "FloatTexture", along |-> 0, k |-> 0, c |-> c] : c \in {0, FOne}}
    \cup {[type |-> "FloatTexture", along |-> a, k |-> a - 3, c |-> 0] : a \in 1..2}
\* texEval(tex, ctx) for a texture evaluation context
EvalFloatTexture(tex, tctx) ==
    IF tex.along = 0 THEN tex.c ELSE tex.c + tex.k * tctx.uv[tex.along]
IsConstantTexture(tex) == tex.along = 0

\* Image normalMap: three channels, one texel per half of the v range; a
\* channel holds 0, 1/2 or 1, written 0, 1, 2
Texel(r, g, b) == <<r, g, b>>
Images ==
    {[type |-> "Image", rows |-> <<t, t>>] :
        t \in {Texel(1, 1, 2), Texel(2, 1, 2), Texel(1, 1, 1)}}
    \cup {[type |-> "Image", rows |-> <<Texel(1, 1, 2), Texel(2, 1, 1)>>]}
\* normalMap->BilerpChannel(uv, c, wrap), a Float
BilerpChannel(image, uv, c) ==
    LET row == IF uv[2] % FOne < FOne \div 2 THEN 1 ELSE 2
    IN  image.rows[row][c] * (FOne \div 2)
\* the image holds the local normal (0, 0, 1) at every texel
EncodesZ(image) == \A r \in 1..2 : image.rows[r] = Texel(1, 1, 2)

\* BumpEvalContext
BumpEvalContext(p, uv, du, dv, n, dpdu, dpdv, dndu, dndv) ==
    [p |-> p, uv |-> uv, dudx |-> du[1], dudy |-> du[2], dvdx |-> dv[1],
     dvdy |-> dv[2],
     shading |-> [n |-> n, dpdu |-> dpdu, dpdv |-> dpdv, dndu |-> dndu, dndv |-> dndv]]
\* operator TextureEvalContext()
TextureEvalContext(c) ==
    [p |-> c.p, uv |-> c.uv, dudx |-> c.dudx, dudy |-> c.dudy, dvdx |-> c.dvdx,
     dvdy |-> c.dvdy]

Axis(x, y, z) == Vector3f(x * FOne, y * FOne, z * FOne)
\* screen-space derivatives <<dudx, dudy>>, <<dvdx, dvdy>>: none, below .0005
\* in sum, and larger
Derivatives ==
    {<<<<0, 0>>, <<0, 0>>>>, <<<<-2, 0>>, <<0, 0>>>>, <<<<2, 2>>, <<0, 2>>>>,
     <<<<FOne, -FOne>>, <<2, -2>>>>}
\* shading frames <<n, dpdu, dpdv>>: orthogonal and right-handed (with
\* tangents of length 1 and of other lengths), left-handed, with dpdu not
\* perpendicular to n, with dpdv not perpendicular to dpdu, with dpdu along n
ShadingFrames ==
    {<<Axis(0, 0, 1), Axis(1, 0, 0), Axis(0, 1, 0)>>,
     <<Axis(1, 0, 0), Axis(0, 2, 0), Axis(0, 0, 1)>>,
     <<Axis(0, 0, -1), Axis(1, 0, 0), Axis(0, 1, 0)>>,
     <<Axis(0, 0, 1), Axis(1, 0, 1), Axis(0, 1, 0)>>,
     <<Axis(0, 0, 1), Axis(1, 0, 0), Axis(1, 1, 0)>>,
     <<Axis(0, 0, 1), Axis(0, 0, 1), Axis(0, 1, 0)>>}
BumpContexts ==
    {BumpEvalContext(ZeroVector, <<FOne \div 4, v>>, d[1], d[2], f[1], f[2], f[3],
                     dn[1], dn[2]) :
        v \in {FOne \div 4, 3 * (FOne \div 4)}, d \in Derivatives, f \in ShadingFrames,
        dn \in {<<ZeroVector, ZeroVector>>, <<Axis(1, 0, 0), Axis(0, 1, 0)>>}}

\* what a Bump call did: whether it stopped in a failed DCHECK (or a fault),
\* the path taken, the shifts used (displacement path), the direction of the
\* perturbed normal (normal-map path; zero when it is 0/0), and the tangents
\* written
BumpResult(path, du, dv, ns, dpdu, dpdv) ==
    [type |-> "Bump", fatal |-> FALSE, path |-> path, du |-> du, dv |-> dv, ns |-> ns,
     dpdu |-> dpdu, dpdv |-> dpdv]
BumpAborted ==
    [type |-> "Bump", fatal |-> TRUE, path |-> "none", du |-> 0, dv |-> 0,
     ns |-> ZeroVector, dpdu |-> NaNVector, dpdv |-> NaNVector]

\* the least positive shift is .0005
Bump_Shift_Floored(dx, dy) ==
    LET d == (Abs(dx) + Abs(dy)) \div 2
    IN  IF d < MinShift THEN MinShift ELSE d

\* the shift of the finite difference
Bump_Shift(dx, dy) ==
    LET d == (Abs(dx) + Abs(dy)) \div 2
    IN  IF d = 0 THEN MinShift ELSE d

\* the term of the shading-normal derivative is left out
Bump_Tangent_SlopeOnly(dp, shifted, displace, d, n, dn) ==
    VAdd(dp, VScale(((shifted - displace) * FOne) \div d, n))

\* the bump-mapped tangent: dp + (shifted - displace) / d * n + displace * dn
Bump_Tangent(dp, shifted, displace, d, n, dn) ==
    VAdd(VAdd(dp, VScale(((shifted - displace) * FOne) \div d, n)), VScale(displace, dn))

\* the displacement path, with the texture that texEval reads
Bump_Displacement(displacement, ctx) ==
    LET du == Bump_Shift(ctx.dudx, ctx.dudy)
        uCtx == [TextureEvalContext(ctx) EXCEPT
                    !.p = VAdd(ctx.p, VScale(du, ctx.shading.dpdu)),
                    !.uv = <<ctx.uv[1] + du, ctx.uv[2]>>]
        uDisplace == EvalFloatTexture(displacement, uCtx)
        dv == Bump_Shift(ctx.dvdx, ctx.dvdy)
        vCtx == [TextureEvalContext(ctx) EXCEPT
                    !.p = VAdd(ctx.p, VScale(dv, ctx.shading.dpdv)),
                    !.uv = <<ctx.uv[1], ctx.uv[2] + dv>>]
        vDisplace == EvalFloatTexture(displacement, vCtx)
        displace == EvalFloatTexture(displacement, TextureEvalContext(ctx))
        dpdu == Bump_Tangent(ctx.shading.dpdu, uDisplace, displace, du, ctx.shading.n,
                             ctx.shading.dndu)
        dpdv == Bump_Tangent(ctx.shading.dpdv, vDisplace, displace, dv, ctx.shading.n,
                             ctx.shading.dndv)
    IN  BumpResult("displacement", du, dv, ZeroVector, TangentOf(dpdu), TangentOf(dpdv))

\* the operands of the cross product are exchanged
Bump_NormalMap_CrossSwapped(normalMap, ctx) ==
    LET uv == <<ctx.uv[1], FOne - ctx.uv[2]>>
        local == Vector3f(2 * BilerpChannel(normalMap, uv, 1) - FOne,
                          2 * BilerpChannel(normalMap, uv, 2) - FOne,
                          2 * BilerpChannel(normalMap, uv, 3) - FOne)
        ns == FromLocal(FrameFromZ(ctx.shading.n), Direction(local))
        ulen2 == LengthSquared(ctx.shading.dpdu)
        vlen2 == LengthSquared(ctx.shading.dpdv)
        g == GramSchmidt(Direction(ctx.shading.dpdu), ns)
    IN  IF local = ZeroVector \/ g = ZeroVector
        THEN BumpResult("normalMap", 0, 0, ns, NaNVector, NaNVector)
        ELSE BumpResult("normalMap", 0, 0, ns, Tangent(g, ulen2),
                        Tangent(Cross(g, ns), vlen2))

\* dpdv is given the length of dpdu
Bump_NormalMap_OneLength(normalMap, ctx) ==
    LET uv == <<ctx.uv[1], FOne - ctx.uv[2]>>
        local == Vector3f(2 * BilerpChannel(normalMap, uv, 1) - FOne,
                          2 * BilerpChannel(normalMap, uv, 2) - FOne,
                          2 * BilerpChannel(normalMap, uv, 3) - FOne)
        ns == FromLocal(FrameFromZ(ctx.shading.n), Direction(local))
        ulen2 == LengthSquared(ctx.shading.dpdu)
        g == GramSchmidt(Direction(ctx.shading.dpdu), ns)
    IN  IF local = ZeroVector \/ g = ZeroVector
        THEN BumpResult("normalMap", 0, 0, ns, NaNVector, NaNVector)
        ELSE BumpResult("normalMap", 0, 0, ns, Tangent(g, ulen2),
                        Tangent(Cross(ns, g), ulen2))

\* the normal-map path
Bump_NormalMap(normalMap, ctx) ==
    LET uv == <<ctx.uv[1], FOne - ctx.uv[2]>>
        local == Vector3f(2 * BilerpChannel(normalMap, uv, 1) - FOne,
                          2 * BilerpChannel(normalMap, uv, 2) - FOne,
                          2 * BilerpChannel(normalMap, uv, 3) - FOne)
        ns == FromLocal(FrameFromZ(ctx.shading.n), Direction(local))
        ulen2 == LengthSquared(ctx.shading.dpdu)
        vlen2 == LengthSquared(ctx.shading.dpdv)
        g == GramSchmidt(Direction(ctx.shading.dpdu), ns)
    IN  IF local = ZeroVector \/ g = ZeroVector
        THEN BumpResult("normalMap", 0, 0, ns, NaNVector, NaNVector)
        ELSE BumpResult("normalMap", 0, 0, ns, Tangent(g, ulen2),
                        Tangent(Cross(ns, g), vlen2))

\* the assertion also fails when both inputs are supplied
Bump_AssertsExactlyOne(texEval, displacement, normalMap, ctx, dbg) ==
    IF dbg /\ ((displacement = Null) = (normalMap = Null)) THEN {BumpAborted}
    ELSE IF displacement # Null
    THEN IF "displacement" \in texEval.unsupported
         THEN IF dbg THEN {BumpAborted}
              ELSE {BumpAborted} \cup {Bump_Displacement(t, ctx) : t \in Displacements}
         ELSE {Bump_Displacement(displacement, ctx)}
    ELSE IF normalMap = Null
    THEN {BumpAborted} \cup {Bump_NormalMap(i, ctx) : i \in Images}
    ELSE {Bump_NormalMap(normalMap, ctx)}

\* Bump(texEval, displacement, normalMap, ctx, &dpdu, &dpdv): the outcomes the
\* call can have. A DCHECK stops a debug build only. Without it, reading
\* through the null normalMap is undefined (a fault, or what any image would
\* give), and an evaluator asked for a texture it cannot evaluate may fail or
\* return the values of any texture.
Bump(texEval, displacement, normalMap, ctx, dbg) ==
    IF dbg /\ displacement = Null /\ normalMap = Null THEN {BumpAborted}
    ELSE IF displacement # Null
    THEN IF "displacement" \in texEval.unsupported
         THEN IF dbg THEN {BumpAborted}
              ELSE {BumpAborted} \cup {Bump_Displacement(t, ctx) : t \in Displacements}
         ELSE {Bump_Displacement(displacement, ctx)}
    ELSE IF normalMap = Null
    THEN {BumpAborted} \cup {Bump_NormalMap(i, ctx) : i \in Images}
    ELSE {Bump_NormalMap(normalMap, ctx)}

\* ------------------------------------------------ texture evaluations
\* The values the evaluator returns for the textures a call evaluates: one
\* record per possible outcome of the texEval(...) calls the method makes.
NoTextures == {<<>>}
GetBSDF_Evaluations(m) ==
    CASE m.kind \in {"Dielectric", "Subsurface"} ->
            [uRoughness : RoughVals, vRoughness : RoughVals]
      [] m.kind = "Diffuse" -> [reflectance : SampledSpectra, sigma : SigmaVals]
      [] m.kind = "DiffuseTransmission" ->
            {[reflectance |-> rt[1], transmittance |-> rt[2], sigma |-> sg] :
                rt \in SpectrumPairs, sg \in SigmaVals}
      [] m.kind = "Hair" ->
            {[beta_m |-> b[1], beta_n |-> b[2], alpha |-> Q, eta |-> One + Q,
              sigma_a |-> sc[1], color |-> sc[2], eumelanin |-> p[1],
              pheomelanin |-> p[2]] :
                b \in {<<0, One>>, <<Q, 0>>}, sc \in SpectrumPairs,
                p \in {<<-Q, Q>>, <<Q, -Q>>, <<0, One>>}}
      [] m.kind = "Conductor" ->
            {[uRoughness |-> u, vRoughness |-> Q - u, eta |-> ek[1], k |-> ek[2],
              reflectance |-> r] :
                u \in RoughVals, ek \in SpectrumPairs, r \in SampledSpectra}
      [] OTHER -> NoTextures
GetBSSRDF_Evaluations(m) ==
    CASE m.kind = "Subsurface" /\ SubsurfaceMaterial_UsesCoefficients(m) ->
            {[sigma_a |-> as[1], sigma_s |-> as[2]] : as \in SpectrumPairs}
      [] m.kind = "Subsurface" /\ ~SubsurfaceMaterial_UsesCoefficients(m) ->
            {[mfp |-> mr[1], reflectance |-> mr[2]] : mr \in SpectrumPairs}
      [] OTHER -> NoTextures
\* the amount texture also returns values next to 0 and next to 1
ChooseMaterial_Evaluations(m) == [amount : FloatVals \cup {1, One - 1}]

\* ------------------------------------------------------------ dispatch
\* variants whose GetBSDF body is part of materials.h as modelled here
HasGetBSDF(m) ==
    m.kind \in {"Dielectric", "ThinDielectric", "Mix", "Hair", "Diffuse", "Conductor",
                "Subsurface", "DiffuseTransmission", "Measured"}

\* the variant's own GetBSDF, called with storage the caller provides
Variant_GetBSDF(m, tv, c, lam, gpu) ==
    CASE m.kind = "Dielectric" -> DielectricMaterial_GetBSDF(m, tv, c, lam, gpu)
      [] m.kind = "ThinDielectric" -> ThinDielectricMaterial_GetBSDF(m, tv, c, lam, gpu)
      [] m.kind = "Mix" -> MixMaterial_GetBSDF(m, tv, c, lam, gpu)
      [] m.kind = "Hair" -> HairMaterial_GetBSDF(m, tv, c, lam, gpu)
      [] m.kind = "Diffuse" -> DiffuseMaterial_GetBSDF(m, tv, c, lam, gpu)
      [] m.kind = "Conductor" -> ConductorMaterial_GetBSDF(m, tv, c, lam, gpu)
      [] m.kind = "Subsurface" -> SubsurfaceMaterial_GetBSDF(m, tv, c, lam, gpu)
      [] m.kind = "DiffuseTransmission" ->
            DiffuseTransmissionMaterial_GetBSDF(m, tv, c, lam, gpu)
      [] m.kind = "Measured" -> MeasuredMaterial_GetBSDF(m, tv, c, lam, gpu)

Variant_GetBSSRDF(m, tv, c, lam, gpu) ==
    CASE m.kind = "Dielectric" -> DielectricMaterial_GetBSSRDF(m, tv, c, lam, gpu)
      [] m.kind = "ThinDielectric" -> ThinDielectricMaterial_GetBSSRDF(m, tv, c, lam, gpu)
      [] m.kind = "Mix" -> MixMaterial_GetBSSRDF(m, tv, c, lam, gpu)
      [] m.kind = "Hair" -> HairMaterial_GetBSSRDF(m, tv, c, lam, gpu)
      [] m.kind = "Diffuse" -> DiffuseMaterial_GetBSSRDF(m, tv, c, lam, gpu)
      [] m.kind = "Conductor" -> ConductorMaterial_GetBSSRDF(m, tv, c, lam, gpu)
      [] m.kind = "CoatedDiffuse" -> CoatedDiffuseMaterial_GetBSSRDF(m, tv, c, lam, gpu)
      [] m.kind = "CoatedConductor" ->
            CoatedConductorMaterial_GetBSSRDF(m, tv, c, lam, gpu)
      [] m.kind = "Subsurface" -> SubsurfaceMaterial_GetBSSRDF(m, tv, c, lam, gpu)
      [] m.kind = "DiffuseTransmission" ->
            DiffuseTransmissionMaterial_GetBSSRDF(m, tv, c, lam, gpu)
      [] m.kind = "Measured" -> MeasuredMaterial_GetBSSRDF(m, tv, c, lam, gpu)

\* using BSSRDF = void, or TabulatedBSSRDF
BSSRDFType(m) == IF m.kind = "Subsurface" THEN "TabulatedBSSRDF" ELSE "void"

\* Material::GetBSDF: storage for the variant's BxDF from the scratch buffer,
\* then the variant's GetBSDF
Material_GetBSDF(m, tv, c, lam, gpu) ==
    [call |-> Variant_GetBSDF(m, tv, c, lam, gpu), allocs |-> 1]

Material_CanEvaluateTextures(m, texEval) ==
    CASE m.kind = "Dielectric" -> DielectricMaterial_CanEvaluateTextures(m, texEval)
      [] m.kind = "ThinDielectric" ->
            ThinDielectricMaterial_CanEvaluateTextures(m, texEval)
      [] m.kind = "Mix" -> MixMaterial_CanEvaluateTextures(m, texEval)
      [] m.kind = "Hair" -> HairMaterial_CanEvaluateTextures(m, texEval)
      [] m.kind = "Diffuse" -> DiffuseMaterial_CanEvaluateTextures(m, texEval)
      [] m.kind = "Conductor" -> ConductorMaterial_CanEvaluateTextures(m, texEval)
      [] m.kind = "CoatedDiffuse" ->
            CoatedDiffuseMaterial_CanEvaluateTextures(m, texEval)
      [] m.kind = "CoatedConductor" ->
            CoatedConductorMaterial_CanEvaluateTextures(m, texEval)
      [] m.kind = "Subsurface" -> SubsurfaceMaterial_CanEvaluateTextures(m, texEval)
      [] m.kind = "DiffuseTransmission" ->
            DiffuseTransmissionMaterial_CanEvaluateTextures(m, texEval)
      [] m.kind = "Measured" -> MeasuredMaterial_CanEvaluateTextures(m, texEval)

\* storage is taken from the scratch buffer before the BSSRDF type is looked at
Material_GetBSSRDF_AllocatesFirst(m, tv, c, lam, gpu) ==
    IF BSSRDFType(m) = "void"
    THEN [call |-> Outcome(Null, lam, FALSE), allocs |-> 1]
    ELSE [call |-> Variant_GetBSSRDF(m, tv, c, lam, gpu), allocs |-> 1]

\* Material::GetBSSRDF: nullptr when the variant's BSSRDF type is void, else
\* storage from the scratch buffer and the variant's GetBSSRDF
Material_GetBSSRDF(m, tv, c, lam, gpu) ==
    IF BSSRDFType(m) = "void"
    THEN [call |-> Outcome(Null, lam, FALSE), allocs |-> 0]
    ELSE [call |-> Variant_GetBSSRDF(m, tv, c, lam, gpu), allocs |-> 1]

Material_HasSubsurfaceScattering(m) ==
    CASE m.kind = "Dielectric" -> DielectricMaterial_HasSubsurfaceScattering
      [] m.kind = "ThinDielectric" -> ThinDielectricMaterial_HasSubsurfaceScattering
      [] m.kind = "Mix" -> MixMaterial_HasSubsurfaceScattering
      [] m.kind = "Hair" -> HairMaterial_HasSubsurfaceScattering
      [] m.kind = "Diffuse" -> DiffuseMaterial_HasSubsurfaceScattering
      [] m.kind = "Conductor" -> ConductorMaterial_HasSubsurfaceScattering
      [] m.kind = "CoatedDiffuse" -> CoatedDiffuseMaterial_HasSubsurfaceScattering
      [] m.kind = "CoatedConductor" -> CoatedConductorMaterial_HasSubsurfaceScattering
      [] m.kind = "Subsurface" -> SubsurfaceMaterial_HasSubsurfaceScattering
      [] m.kind = "DiffuseTransmission" ->
            DiffuseTransmissionMaterial_HasSubsurfaceScattering
      [] m.kind = "Measured" -> MeasuredMaterial_HasSubsurfaceScattering

\* --------------------------------------------------------------- state
VARIABLES
    mtl,       \* the material instance being evaluated
    ctx,       \* the MaterialEvalContext of the shading event
    lambda,    \* the SampledWavelengths of the shading event
    scratch,   \* allocations made from the ScratchBuffer
    fatal,     \* LOG_FATAL was reached: the process has aborted
    declared,  \* textures passed to texEval.CanEvaluate by CanEvaluateTextures
    canEval,   \* what CanEvaluateTextures returned: "unknown", "true", "false"
    op,        \* the last call made
    gpu,       \* whether the calls run as GPU code (PBRT_IS_GPU_CODE)
    args,      \* the texture values the last call evaluated, by texture
    before,    \* lambda when the last call was made
    ret,       \* what the last call returned
    hashed,    \* whether the last ChooseMaterial computed HashFloat
    seen,      \* a ChooseMaterial call made so far: its arguments and its choice
    debug,     \* whether DCHECK is compiled in (a debug build)
    events     \* the shading events in flight, each with its own wavelengths
               \* and scratch buffer

vars == <<mtl, ctx, lambda, scratch, fatal, declared, canEval, op, gpu, args, before,
          ret, hashed, seen, debug, events>>

InitWith(scene, builds, contexts) ==
    /\ mtl \in scene
    /\ gpu \in builds
    /\ ctx \in contexts
    /\ lambda \in {FreshWavelengths, TerminateSecondary(FreshWavelengths)}
    /\ scratch = 0
    /\ fatal = FALSE
    /\ declared = {}
    /\ canEval = "unknown"
    /\ op = "none"
    /\ args = <<>>
    /\ before = lambda
    /\ ret = Null
    /\ hashed = FALSE
    /\ seen = Null
    /\ debug = FALSE
    /\ events = <<>>

\* the scene's materials, at one shading point
Init == InitWith(Scene, BOOLEAN, {c \in Contexts : c.p = 0 /\ c.uv = 0})

\* MaterialEvalContext(si): the context of the next shading point; what the
\* calls at the previous point returned is gone
MaterialEvalContext ==
    /\ ~fatal
    /\ \E c \in Contexts : ctx' = c
    /\ ctx' # ctx
    /\ op' = "MaterialEvalContext"
    /\ args' = <<>>
    /\ before' = lambda
    /\ ret' = Null
    /\ hashed' = FALSE
    /\ UNCHANGED <<mtl, lambda, scratch, fatal, declared, canEval, gpu, seen, debug, events>>

CanEvaluateTextures ==
    /\ ~fatal
    /\ \E texEval \in Evaluators(mtl) :
         LET r == Material_CanEvaluateTextures(mtl, texEval)
         IN  /\ declared' = r.declared
             /\ canEval' = IF r.result THEN "true" ELSE "false"
             /\ ret' = r.result
    /\ op' = "CanEvaluateTextures"
    /\ args' = <<>>
    /\ before' = lambda
    /\ hashed' = FALSE
    /\ UNCHANGED <<mtl, ctx, lambda, scratch, fatal, gpu, seen, debug, events>>

ChooseMaterial ==
    /\ ~fatal
    /\ mtl.kind = "Mix"
    /\ \E tv \in ChooseMaterial_Evaluations(mtl) :
         LET r == MixMaterial_ChooseMaterial(mtl, tv, ctx)
             this == [type |-> "call", amount |-> tv.amount, p |-> ctx.p, wo |-> ctx.wo,
                      uv |-> ctx.uv, materials |-> mtl.materials, ret |-> r.ret]
         IN  /\ args' = tv
             /\ ret' = r.ret
             /\ hashed' = r.hashed
             /\ seen' \in {seen, this}
    /\ op' = "ChooseMaterial"
    /\ before' = lambda
    /\ UNCHANGED <<mtl, ctx, lambda, scratch, fatal, declared, canEval, gpu, debug, events>>

\* the values of the textures a call evaluated: of those it names in its
\* outcome, else of all in tv
Evaluated(tv, r) ==
    IF "evaluated" \in DOMAIN r THEN [t \in r.evaluated |-> tv[t]] ELSE tv

\* the effect of a call's outcome on the state
Returns(name, tv, r) ==
    /\ op' = name
    /\ args' = Evaluated(tv, r)
    /\ before' = lambda
    /\ ret' = r.ret
    /\ lambda' = r.lambda
    /\ fatal' = r.fatal
    /\ hashed' = FALSE
    /\ UNCHANGED <<mtl, ctx, declared, canEval, gpu, seen, debug, events>>

GetBSDF ==
    /\ ~fatal
    /\ HasGetBSDF(mtl)
    /\ \E tv \in GetBSDF_Evaluations(mtl) :
         LET r == Material_GetBSDF(mtl, tv, ctx, lambda, gpu)
         IN  /\ scratch + r.allocs <= MaxAlloc
             /\ scratch' = scratch + r.allocs
             /\ Returns("Material::GetBSDF", tv, r.call)

GetBSSRDF ==
    /\ ~fatal
    /\ \E tv \in GetBSSRDF_Evaluations(mtl) :
         LET r == Material_GetBSSRDF(mtl, tv, ctx, lambda, gpu)
         IN  /\ scratch + r.allocs <= MaxAlloc
             /\ scratch' = scratch + r.allocs
             /\ Returns("Material::GetBSSRDF", IF r.allocs = 0 THEN <<>> ELSE tv, r.call)

\* the variant's methods called on the concrete material
VariantGetBSDF ==
    /\ ~fatal
    /\ HasGetBSDF(mtl)
    /\ \E tv \in GetBSDF_Evaluations(mtl) :
         /\ Returns("GetBSDF", tv, Variant_GetBSDF(mtl, tv, ctx, lambda, gpu))
         /\ scratch' = scratch

VariantGetBSSRDF ==
    /\ ~fatal
    /\ \E tv \in GetBSSRDF_Evaluations(mtl) :
         /\ Returns("GetBSSRDF", tv, Variant_GetBSSRDF(mtl, tv, ctx, lambda, gpu))
         /\ scratch' = scratch

Next ==
    \/ CanEvaluateTextures
    \/ ChooseMaterial
    \/ GetBSDF
    \/ GetBSSRDF
    \/ VariantGetBSDF
    \/ VariantGetBSSRDF

\* every call on every material of the scene
Spec == Init /\ [][Next]_vars

\* every call on the Mix variant, over the shading points
MixScene == {m \in Scene : m.kind = "Mix"}

InitMix == InitWith(MixScene, BOOLEAN, Contexts)

NextMix ==
    \/ MaterialEvalContext
    \/ Next

SpecMix == InitMix /\ [][NextMix]_vars

\* the variants' GetBSDF over every parameter of a family of variants
NextVariant ==
    \/ MaterialEvalContext
    \/ VariantGetBSDF

InitDielectric == InitWith(DielectricScene, {FALSE}, Contexts)

SpecDielectric == InitDielectric /\ [][NextVariant]_vars

InitDiffuse == InitWith(DiffuseScene, {FALSE}, Contexts)

SpecDiffuse == InitDiffuse /\ [][NextVariant]_vars

\* the Hair variant with every choice of absorption, color and pigment
\* textures
HairScene ==
    {HairMaterial({"eta", "beta_m", "beta_n", "alpha"} \cup t) :
        t \in SUBSET {"sigma_a", "color", "eumelanin", "pheomelanin"}}

InitHair == InitWith(HairScene, {FALSE}, Contexts)

SpecHair == InitHair /\ [][NextVariant]_vars

\* the Conductor variant with an index-of-refraction texture, with a
\* reflectance texture, and with both
ConductorScene ==
    {ConductorMaterial({"uRoughness", "vRoughness"} \cup t, r) :
        t \in {{"eta", "k"}, {"reflectance"}, {"eta", "k", "reflectance"}},
        r \in BOOLEAN}

InitConductor == InitWith(ConductorScene, {FALSE}, Contexts)

SpecConductor == InitConductor /\ [][NextVariant]_vars

\* Bump on every context, with every choice of displacement and normal map,
\* in debug and in release builds
BumpEvaluators == {[unsupported |-> {}], [unsupported |-> {"displacement"}]}

BumpCall ==
    /\ ~fatal
    /\ \E texEval \in BumpEvaluators, displacement \in Displacements \cup {Null},
          normalMap \in Images \cup {Null} :
         /\ args' = [texEval |-> texEval, displacement |-> displacement,
                     normalMap |-> normalMap]
         /\ ret' \in Bump(texEval, displacement, normalMap, ctx, debug)
    /\ fatal' = ret'.fatal
    /\ op' = "Bump"
    /\ before' = lambda
    /\ hashed' = FALSE
    /\ UNCHANGED <<mtl, ctx, lambda, scratch, declared, canEval, gpu, seen, debug, events>>

InitBump ==
    /\ mtl = MeasuredMaterial
    /\ gpu = FALSE
    /\ ctx \in BumpContexts
    /\ lambda = FreshWavelengths
    /\ scratch = 0
    /\ fatal = FALSE
    /\ declared = {}
    /\ canEval = "unknown"
    /\ op = "none"
    /\ args = <<>>
    /\ before = lambda
    /\ ret = Null
    /\ hashed = FALSE
    /\ seen = Null
    /\ debug \in BOOLEAN
    /\ events = <<>>

NextBump == BumpCall

SpecBump == InitBump /\ [][NextBump]_vars

\* ------------------------------------------- concurrent shading events
\* Material::GetDisplacement and Material::GetNormalMap dispatch to the variant:
\* the member, except for the hair variant (nullptr) and the mix variant
\* (LOG_FATAL on the CPU, then nullptr)
Material_GetDisplacement(m, g) ==
    CASE m.kind = "Mix" -> [ret |-> Null, fatal |-> ~g]
      [] m.kind = "Hair" -> [ret |-> Null, fatal |-> FALSE]
      [] OTHER -> [ret |-> m.displacement, fatal |-> FALSE]
Material_GetNormalMap(m, g) ==
    CASE m.kind = "Mix" -> [ret |-> Null, fatal |-> ~g]
      [] m.kind = "Hair" -> [ret |-> Null, fatal |-> FALSE]
      [] OTHER -> [ret |-> m.normalMap, fatal |-> FALSE]

\* GetBSSRDF of the subsurface variant refills the table it holds
Material_Members_TableRefilled(m, name) ==
    IF name = "GetBSSRDF" /\ m.kind = "Subsurface"
    THEN [m EXCEPT !.table = NoTable]
    ELSE m

\* the members of the material after a call: every method is const, and no
\* member is mutable
Material_Members(m, name) == m

Threads == 1..NThreads

\* the materials events run on: a subsurface material with a table and a
\* displacement, a diffuse material with a normal map, a mix
ConcurrentScene ==
    {WithPerturbation(SubsurfaceMaterial(One, {"reflectance", "mfp"}, Q, One + Q, FALSE),
                      [type |-> "FloatTexture", along |-> 0, k |-> 0, c |-> FOne], Null),
     WithPerturbation(DiffuseMaterial("reflectance", "sigma"), Null,
                      [type |-> "Image", rows |-> <<Texel(1, 1, 2), Texel(1, 1, 2)>>]),
     MixMaterial(<<1, 2>>, "amount")}

\* what an event is called with: the evaluator for CanEvaluateTextures, the
\* values its textures return for the others
EventInputs(m, name) ==
    CASE name = "CanEvaluateTextures" -> {[unsupported |-> {}]}
      [] name = "ChooseMaterial" ->
            IF m.kind = "Mix" THEN {[amount |-> 0], [amount |-> One - 1]} ELSE {}
      [] name = "GetBSDF" ->
            IF m.kind = "Diffuse"
            THEN {tv \in GetBSDF_Evaluations(m) :
                     tv.sigma = 45 * One /\ tv.reflectance \in {Ramp(0), Ramp(1)}}
            ELSE IF m.kind = "Subsurface"
            THEN {tv \in GetBSDF_Evaluations(m) : tv.uRoughness = tv.vRoughness}
            ELSE GetBSDF_Evaluations(m)
      [] name = "GetBSSRDF" ->
            IF m.kind = "Subsurface"
            THEN {tv \in GetBSSRDF_Evaluations(m) : tv.mfp = Ramp(1)}
            ELSE GetBSSRDF_Evaluations(m)
      [] OTHER -> NoTextures

\* what the call of the event returns and leaves in its own wavelengths and
\* scratch buffer, on material m
EventResult(m, e, g) ==
    CASE e.op = "CanEvaluateTextures" ->
            [ret |-> Material_CanEvaluateTextures(m, e.in).result, lambda |-> e.before,
             fatal |-> FALSE, scratch |-> 0]
      [] e.op = "ChooseMaterial" ->
            [ret |-> MixMaterial_ChooseMaterial(m, e.in, e.ctx).ret, lambda |-> e.before,
             fatal |-> FALSE, scratch |-> 0]
      [] e.op = "GetBSDF" ->
            LET r == Material_GetBSDF(m, e.in, e.ctx, e.before, g)
            IN  [ret |-> r.call.ret, lambda |-> r.call.lambda, fatal |-> r.call.fatal,
                 scratch |-> r.allocs]
      [] e.op = "GetBSSRDF" ->
            LET r == Material_GetBSSRDF(m, e.in, e.ctx, e.before, g)
            IN  [ret |-> r.call.ret, lambda |-> r.call.lambda, fatal |-> r.call.fatal,
                 scratch |-> r.allocs]
      [] e.op = "GetDisplacement" ->
            LET r == Material_GetDisplacement(m, g)
            IN  [ret |-> r.ret, lambda |-> e.before, fatal |-> r.fatal, scratch |-> 0]
      [] e.op = "GetNormalMap" ->
            LET r == Material_GetNormalMap(m, g)
            IN  [ret |-> r.ret, lambda |-> e.before, fatal |-> r.fatal, scratch |-> 0]

\* LOG_FATAL in any event aborts the process
Aborted == \E t \in Threads : events[t].pc = "done" /\ events[t].result.fatal

\* thread t starts a shading event on the material: the call, its arguments,
\* and wavelengths that are its own
Begin(t) ==
    /\ ~Aborted
    /\ events[t].pc = "idle"
    /\ \E name \in {"CanEvaluateTextures", "ChooseMaterial", "GetBSDF", "GetBSSRDF",
                     "GetDisplacement", "GetNormalMap"},
          c \in {cc \in Contexts : cc.p = 0 /\ cc.uv = One},
          lam \in {FreshWavelengths, TerminateSecondary(FreshWavelengths)} :
         \E in \in EventInputs(mtl, name) :
            events' = [events EXCEPT ![t] =
                          [pc |-> "called", op |-> name, in |-> in, ctx |-> c,
                           before |-> lam]]
    /\ UNCHANGED <<mtl, ctx, lambda, scratch, fatal, declared, canEval, op, gpu, args,
                   before, ret, hashed, seen, debug>>

\* the call of thread t's event runs on the material as it is now and returns
Finish(t) ==
    /\ ~Aborted
    /\ events[t].pc = "called"
    /\ events' = [events EXCEPT ![t] =
                     [pc |-> "done", op |-> @.op, in |-> @.in, ctx |-> @.ctx,
                      before |-> @.before, result |-> EventResult(mtl, @, gpu)]]
    /\ mtl' = Material_Members(mtl, events[t].op)
    /\ UNCHANGED <<ctx, lambda, scratch, fatal, declared, canEval, op, gpu, args,
                   before, ret, hashed, seen, debug>>

\* thread t is done with its event; its scratch buffer is reset
Retire(t) ==
    /\ ~Aborted
    /\ events[t].pc = "done"
    /\ events' = [events EXCEPT ![t] = [pc |-> "idle"]]
    /\ UNCHANGED <<mtl, ctx, lambda, scratch, fatal, declared, canEval, op, gpu, args,
                   before, ret, hashed, seen, debug>>

InitConcurrent ==
    /\ mtl \in ConcurrentScene
    /\ gpu \in BOOLEAN
    /\ ctx \in {c \in Contexts : c.p = 0 /\ c.uv = 0}
    /\ lambda = FreshWavelengths
    /\ scratch = 0
    /\ fatal = FALSE
    /\ declared = {}
    /\ canEval = "unknown"
    /\ op = "none"
    /\ args = <<>>
    /\ before = lambda
    /\ ret = Null
    /\ hashed = FALSE
    /\ seen = Null
    /\ debug = FALSE
    /\ events = [t \in Threads |-> [pc |-> "idle"]]

NextConcurrent == \E t \in Threads : Begin(t) \/ Finish(t) \/ Retire(t)

\* shading events in flight on one material
SpecConcurrent == InitConcurrent /\ [][NextConcurrent]_vars

\* ============================================================== claims
IsGetBSDF == op \in {"GetBSDF", "Material::GetBSDF"}
IsGetBSSRDF == op \in {"GetBSSRDF", "Material::GetBSSRDF"}

\* C1: once CanEvaluateTextures has returned true, every texture that a
\* GetBSDF or GetBSSRDF call evaluates is one of the textures that
\* CanEvaluateTextures passed to the evaluator's CanEvaluate query.
C1_EvaluatedWereDeclared ==
    (canEval = "true" /\ (IsGetBSDF \/ IsGetBSSRDF)) => DOMAIN args \subseteq declared

\* the index of refraction a variant builds its dielectric function from, and
\* the same material with another index of refraction there
IndexOfRefraction(m, lam) ==
    IF m.kind = "Subsurface" THEN m.eta ELSE SpectrumEval(m.etaSpec, lam.lambda[1])
WithIndexOfRefraction(m, lam, e) ==
    IF m.kind = "Subsurface" THEN [m EXCEPT !.eta = e]
    ELSE IF IsConstantSpectrum(m.etaSpec)
         THEN [m EXCEPT !.etaSpec.v = [w \in Wavelengths |-> e]]
         ELSE [m EXCEPT !.etaSpec.v[lam.lambda[1]] = e]

\* C2 as stated: after DielectricMaterial::GetBSDF or
\* ThinDielectricMaterial::GetBSDF the wavelengths are unchanged if the index
\* of refraction takes the same value at every wavelength, and the secondary
\* wavelengths are terminated if it varies.
C2_ByValue ==
    (op = "GetBSDF" /\ mtl.kind \in {"Dielectric", "ThinDielectric"}) =>
        IF WavelengthConstant(mtl.etaSpec) THEN lambda = before
        ELSE SecondaryTerminated(lambda)

\* C2 amended: after DielectricMaterial::GetBSDF or
\* ThinDielectricMaterial::GetBSDF the wavelengths are unchanged if the index
\* of refraction is a ConstantSpectrum, and the secondary wavelengths are
\* terminated if it is any other kind of spectrum, also one whose values are
\* the same at every wavelength.
C2_ByRepresentation ==
    (op = "GetBSDF" /\ mtl.kind \in {"Dielectric", "ThinDielectric"}) =>
        IF IsConstantSpectrum(mtl.etaSpec) THEN lambda = before
        ELSE SecondaryTerminated(lambda) /\ lambda = TerminateSecondary(before)

\* a spectrum that is no ConstantSpectrum but has one value everywhere ended
\* the secondary wavelengths of a call that had them active
C2_Witness ==
    /\ op = "GetBSDF"
    /\ mtl.kind = "ThinDielectric"
    /\ ~IsConstantSpectrum(mtl.etaSpec)
    /\ WavelengthConstant(mtl.etaSpec)
    /\ ~SecondaryTerminated(before)
    /\ SecondaryTerminated(lambda)

\* C3 as stated: a dielectric, thin dielectric or subsurface material whose
\* index of refraction is exactly 0 builds the scattering function that the
\* same evaluation builds with index of refraction 1.
C3_ZeroIsOne ==
    (/\ op = "GetBSDF"
     /\ mtl.kind \in {"Dielectric", "ThinDielectric", "Subsurface"}
     /\ IndexOfRefraction(mtl, before) = 0) =>
        ret = Variant_GetBSDF(WithIndexOfRefraction(mtl, before, One), args, ctx,
                              before, gpu).ret

\* C3 amended: a dielectric or thin dielectric material whose sampled index
\* of refraction is exactly 0 builds the scattering function that the same
\* evaluation builds with index 1; the subsurface variant hands its index of
\* refraction to the scattering function as it is, 0 included.
C3_ZeroIsOneWhenSampled ==
    /\ (/\ op = "GetBSDF"
        /\ mtl.kind \in {"Dielectric", "ThinDielectric"}
        /\ IndexOfRefraction(mtl, before) = 0) =>
           ret = Variant_GetBSDF(WithIndexOfRefraction(mtl, before, One), args, ctx,
                                 before, gpu).ret
    /\ (op = "GetBSDF" /\ mtl.kind = "Subsurface") => ret.bxdf.eta = mtl.eta

\* a dielectric whose spectrum is 0 at the sampled wavelength built a
\* scattering function with index 1
C3_Witness ==
    /\ op = "GetBSDF"
    /\ mtl.kind = "Dielectric"
    /\ IndexOfRefraction(mtl, before) = 0
    /\ ret.bxdf.eta = One

\* C4: MixMaterial::ChooseMaterial returns sub-material 0 whenever the amount
\* is <= 0 and sub-material 1 whenever it is >= 1, and in both cases does not
\* compute the hash.
C4_Endpoints ==
    op = "ChooseMaterial" =>
        /\ args.amount <= 0 => (ret = mtl.materials[1] /\ ~hashed)
        /\ args.amount >= One => (ret = mtl.materials[2] /\ ~hashed)

\* both endpoint cases are reached: here amount = 0 at the first sub-material
C4_Witness ==
    /\ op = "ChooseMaterial"
    /\ args.amount = 0
    /\ ret = mtl.materials[1]
    /\ ~hashed

\* the last ChooseMaterial call has the arguments of the call kept in seen
SameArguments ==
    /\ op = "ChooseMaterial"
    /\ seen.type = "call"
    /\ seen.amount = args.amount
    /\ seen.p = ctx.p
    /\ seen.wo = ctx.wo
    /\ seen.materials = mtl.materials

\* C5: two ChooseMaterial calls with the same amount, point, outgoing
\* direction and sub-materials select the same sub-material, whatever was
\* called in between and whatever else their contexts hold, and a
\* ChooseMaterial call leaves the material as it was.
C5_PureChoice ==
    /\ [](SameArguments => ret = seen.ret)
    /\ [][op' = "ChooseMaterial" => mtl' = mtl]_vars

\* two calls at contexts that differ in uv only, both decided by the hash
C5_Witness ==
    /\ SameArguments
    /\ seen.uv # ctx.uv
    /\ hashed
    /\ ret = seen.ret

\* C6: GetBSDF on the Mix variant, called directly or through
\* Material::GetBSDF, is a fatal error on the CPU, never returns a handle of
\* a scattering function, and leaves the wavelengths unchanged.
C6_MixHasNoBSDF ==
    (IsGetBSDF /\ mtl.kind = "Mix") =>
        /\ ~gpu => fatal
        /\ ret = Null
        /\ lambda = before

\* Material::GetBSDF on a Mix material ended in the fatal error
C6_Witness ==
    /\ op = "Material::GetBSDF"
    /\ mtl.kind = "Mix"
    /\ ~gpu
    /\ fatal

C8_PresentIffSubsurface ==
    /\ [](op = "Material::GetBSSRDF" =>
            ((ret # Null) <=> Material_HasSubsurfaceScattering(mtl)))
    /\ [][(op' = "Material::GetBSSRDF" /\ ~Material_HasSubsurfaceScattering(mtl)) =>
            (ret' = Null /\ scratch' = scratch /\ lambda' = lambda /\ ~fatal')]_vars

\* both sides are reached: here the no-op on a material that had already
\* taken its scattering function from the scratch buffer
C8_Witness ==
    /\ op = "Material::GetBSSRDF"
    /\ mtl.kind = "Diffuse"
    /\ ret = Null
    /\ scratch = MaxAlloc

\* the spectrum the diffuse family clamps: the texture's value, times the
\* scale factor where the variant has one
Scaled(m, s) == IF m.kind = "DiffuseTransmission" THEN ScaleSpectrum(m.scale, s) ELSE s
InUnitRange(x) == 0 <= x /\ x <= One

\* C9: every component of the reflectance and of the transmittance that
\* DiffuseMaterial::GetBSDF and DiffuseTransmissionMaterial::GetBSDF hand to
\* the scattering function lies in [0,1]; a component of the (scaled) texture
\* value that lies in [0,1] is handed over unchanged; DiffuseMaterial hands
\* over zero transmittance.
C9_UnitRange ==
    (op = "GetBSDF" /\ mtl.kind \in {"Diffuse", "DiffuseTransmission"}) =>
        /\ \A i \in 1..NSamples :
             /\ InUnitRange(ret.bxdf.R[i])
             /\ InUnitRange(ret.bxdf.T[i])
             /\ InUnitRange(Scaled(mtl, args.reflectance)[i]) =>
                    ret.bxdf.R[i] = Scaled(mtl, args.reflectance)[i]
        /\ mtl.kind = "DiffuseTransmission" =>
             \A i \in 1..NSamples :
                InUnitRange(Scaled(mtl, args.transmittance)[i]) =>
                    ret.bxdf.T[i] = Scaled(mtl, args.transmittance)[i]
        /\ mtl.kind = "Diffuse" => \A i \in 1..NSamples : ret.bxdf.T[i] = 0

\* a scaled transmittance above 1 and a negative one were both clamped
C9_Witness ==
    /\ op = "GetBSDF"
    /\ mtl.kind = "DiffuseTransmission"
    /\ \E i, j \in 1..NSamples :
          /\ Scaled(mtl, args.transmittance)[i] > One
          /\ ret.bxdf.T[i] = One
          /\ Scaled(mtl, args.transmittance)[j] < 0
          /\ ret.bxdf.T[j] = 0

\* C10: the sigma that DiffuseMaterial::GetBSDF and
\* DiffuseTransmissionMaterial::GetBSDF hand to the scattering function lies
\* in [0, 90].
C10_SigmaRange ==
    (op = "GetBSDF" /\ mtl.kind \in {"Diffuse", "DiffuseTransmission"}) =>
        (0 <= ret.bxdf.sigma /\ ret.bxdf.sigma <= 90 * One)

\* a Bump call whose evaluator can evaluate the displacement texture
IsBump == op = "Bump" /\ "displacement" \notin args.texEval.unsupported
Supplied(x) == x # Null

\* C11 as stated: in a build with assertions, a Bump call with neither a
\* displacement texture nor a normal map, and a call with both, fail the
\* assertion; a call with exactly one takes the path of that input.
C11_ExactlyOne ==
    (IsBump /\ debug) =>
        /\ (Supplied(args.displacement) = Supplied(args.normalMap)) => ret.fatal
        /\ (Supplied(args.displacement) /\ ~Supplied(args.normalMap)) =>
              (~ret.fatal /\ ret.path = "displacement")
        /\ (~Supplied(args.displacement) /\ Supplied(args.normalMap)) =>
              (~ret.fatal /\ ret.path = "normalMap")

\* C11 amended: Bump asserts that at least one of the two inputs is supplied:
\* in a build with assertions a call with neither fails the assertion; in
\* every build a call with a displacement texture takes the displacement
\* path, whether or not a normal map is supplied as well, and a call with a
\* normal map only takes the normal-map path.
C11_AtLeastOne ==
    IsBump =>
        /\ (debug /\ ~Supplied(args.displacement) /\ ~Supplied(args.normalMap)) =>
              ret.fatal
        /\ Supplied(args.displacement) => (~ret.fatal /\ ret.path = "displacement")
        /\ (~Supplied(args.displacement) /\ Supplied(args.normalMap)) =>
              (~ret.fatal /\ ret.path = "normalMap")

\* a call with both inputs passed the assertion and took the displacement path
C11_Witness ==
    /\ IsBump
    /\ debug
    /\ Supplied(args.displacement)
    /\ Supplied(args.normalMap)
    /\ ~fatal
    /\ ret.path = "displacement"

\* a Bump call that took the displacement path and read the texture it was given
IsDisplacementPath == IsBump /\ ~ret.fatal /\ ret.path = "displacement"

\* C12 as stated: on the displacement path, with a displacement texture that
\* returns one value at every point, the tangents written are the shading
\* tangents of the context, whatever the shading-normal derivatives are.
C12_ConstantKeepsTangents ==
    (IsDisplacementPath /\ IsConstantTexture(args.displacement)) =>
        /\ ret.dpdu = TangentOf(ctx.shading.dpdu)
        /\ ret.dpdv = TangentOf(ctx.shading.dpdv)

\* C12 amended: on the displacement path, with a displacement texture that
\* returns the value d at every point, the tangents written are
\* dpdu + d * dndu and dpdv + d * dndv: the shading tangents of the context
\* when d = 0 or the shading-normal derivatives are zero.
C12_ConstantAddsNormalDerivative ==
    (IsDisplacementPath /\ IsConstantTexture(args.displacement)) =>
        LET d == args.displacement.c
        IN  /\ ret.dpdu = TangentOf(VAdd(ctx.shading.dpdu, VScale(d, ctx.shading.dndu)))
            /\ ret.dpdv = TangentOf(VAdd(ctx.shading.dpdv, VScale(d, ctx.shading.dndv)))
            /\ (d = 0 \/ ctx.shading.dndu = ZeroVector) =>
                  ret.dpdu = TangentOf(ctx.shading.dpdu)
            /\ (d = 0 \/ ctx.shading.dndv = ZeroVector) =>
                  ret.dpdv = TangentOf(ctx.shading.dpdv)

\* a constant non-zero displacement on a context without normal derivatives
\* left the tangents as they were
C12_Witness ==
    /\ IsDisplacementPath
    /\ IsConstantTexture(args.displacement)
    /\ args.displacement.c # 0
    /\ ctx.shading.dndu = ZeroVector
    /\ ret.dpdu = TangentOf(ctx.shading.dpdu)
    /\ ret.dpdv = TangentOf(ctx.shading.dpdv)

\* a Bump call that took the normal-map path
IsNormalMapPath == IsBump /\ ~ret.fatal /\ ret.path = "normalMap"
SameLength(t, v) == ~t.nan /\ t.len2 = LengthSquared(v)

\* C13 as stated: on both paths of Bump the tangents written have the
\* lengths of the shading tangents of the context.
C13_LengthsPreserved ==
    (IsBump /\ ~ret.fatal) =>
        /\ SameLength(ret.dpdu, ctx.shading.dpdu)
        /\ SameLength(ret.dpdv, ctx.shading.dpdv)

\* C13 amended: on the normal-map path, when the image decodes to a non-zero
\* normal and the shading dpdu is not parallel to the perturbed normal, the
\* tangents written have the lengths of the shading tangents of the context;
\* otherwise the tangents written there are not numbers.
C13_NormalMapKeepsLengths ==
    IsNormalMapPath =>
        IF ret.ns # ZeroVector /\ Cross(ret.ns, ctx.shading.dpdu) # ZeroVector
        THEN /\ SameLength(ret.dpdu, ctx.shading.dpdu)
             /\ SameLength(ret.dpdv, ctx.shading.dpdv)
        ELSE ret.dpdu.nan /\ ret.dpdv.nan

\* the normal map turned both tangents, of different lengths, and kept the
\* length of each
C13_Witness ==
    /\ IsNormalMapPath
    /\ LengthSquared(ctx.shading.dpdu) # LengthSquared(ctx.shading.dpdv)
    /\ SameLength(ret.dpdu, ctx.shading.dpdu)
    /\ SameLength(ret.dpdv, ctx.shading.dpdv)
    /\ ret.dpdu # TangentOf(ctx.shading.dpdu)
    /\ ret.dpdv # TangentOf(ctx.shading.dpdv)

\* C14 as stated: on the normal-map path, with an image that decodes to the
\* local normal (0,0,1) at every texel, the tangents written are the shading
\* tangents of the context, for every shading frame.
C14_FlatMapKeepsFrame ==
    (IsNormalMapPath /\ args.normalMap # Null /\ EncodesZ(args.normalMap)) =>
        /\ ret.dpdu = TangentOf(ctx.shading.dpdu)
        /\ ret.dpdv = TangentOf(ctx.shading.dpdv)

\* the shading frame of the context is orthogonal and right-handed: dpdu is
\* perpendicular to n and dpdv points along Cross(n, dpdu)
RightHanded(sh) ==
    /\ VDot(sh.dpdu, sh.n) = 0
    /\ Direction(sh.dpdv) = Direction(Cross(Direction(sh.n), Direction(sh.dpdu)))

\* C14 amended: on the normal-map path, with an image that decodes to the
\* local normal (0,0,1) at every texel, the perturbed normal is the shading
\* normal, dpdu is written perpendicular to it and dpdv along
\* Cross(n, dpdu); the tangents written are the shading tangents of the
\* context exactly when dpdu is perpendicular to n and dpdv points along
\* Cross(n, dpdu).
C14_FlatMapKeepsOrthogonalFrame ==
    (IsNormalMapPath /\ args.normalMap # Null /\ EncodesZ(args.normalMap)) =>
        /\ ret.ns = Direction(ctx.shading.n)
        /\ ~ret.dpdu.nan =>
              /\ VDot(ret.dpdu.dir, ctx.shading.n) = 0
              /\ ret.dpdv.dir = Direction(Cross(ret.ns, ret.dpdu.dir))
        /\ RightHanded(ctx.shading) <=>
              /\ ret.dpdu = TangentOf(ctx.shading.dpdu)
              /\ ret.dpdv = TangentOf(ctx.shading.dpdv)

\* the flat image left a right-handed frame with tangents of different
\* lengths as it was
C14_Witness ==
    /\ IsNormalMapPath
    /\ args.normalMap # Null
    /\ EncodesZ(args.normalMap)
    /\ RightHanded(ctx.shading)
    /\ LengthSquared(ctx.shading.dpdu) # LengthSquared(ctx.shading.dpdv)
    /\ ret.dpdu = TangentOf(ctx.shading.dpdu)
    /\ ret.dpdv = TangentOf(ctx.shading.dpdv)

\* half the sum of the absolute derivatives (of u, of v)
HalfAbsSum(dx, dy) == (Abs(dx) + Abs(dy)) \div 2

\* C19 as stated: on the displacement path the shift along u (along v) is
\* half the sum of the absolute screen-space derivatives of u (of v), raised
\* to .0005 when it is less: it is at least .0005.
C19_ShiftFloored ==
    IsDisplacementPath =>
        /\ ret.du >= MinShift
        /\ ret.dv >= MinShift

\* C19 amended: on the displacement path the shift along u (along v) is half
\* the sum of the absolute screen-space derivatives of u (of v), replaced by
\* .0005 only when that is exactly 0; a smaller positive shift is used as it
\* is. The shift is never zero.
C19_ShiftNonZero ==
    IsDisplacementPath =>
        /\ ret.du > 0
        /\ ret.dv > 0
        /\ HalfAbsSum(ctx.dudx, ctx.dudy) # 0 => ret.du = HalfAbsSum(ctx.dudx, ctx.dudy)
        /\ HalfAbsSum(ctx.dvdx, ctx.dvdy) # 0 => ret.dv = HalfAbsSum(ctx.dvdx, ctx.dvdy)
        /\ HalfAbsSum(ctx.dudx, ctx.dudy) = 0 => ret.du = MinShift
        /\ HalfAbsSum(ctx.dvdx, ctx.dvdy) = 0 => ret.dv = MinShift

\* zero derivatives of v gave the shift .0005, and derivatives of u below
\* .0005 in sum gave a smaller shift
C19_Witness ==
    /\ IsDisplacementPath
    /\ ctx.dvdx = 0
    /\ ctx.dvdy = 0
    /\ ret.dv = MinShift
    /\ ret.du > 0
    /\ ret.du < MinShift

HairSources == {"sigma_a", "color", "eumelanin", "pheomelanin"}
Evaluates(t) == t \in DOMAIN args
NonNegative(x) == IF x > 0 THEN x ELSE 0

\* C15: HairMaterial::GetBSDF takes the absorption coefficient from the
\* sigma_a texture if the material holds one, and then evaluates neither the
\* color nor a pigment texture; else from the color texture if it holds one,
\* and then evaluates no pigment texture; else from the concentrations of the
\* pigment textures it holds, a missing one counting as 0 and a negative one
\* as 0; holding none of the four, the call is a fatal error and returns no
\* scattering function.
C15_AbsorptionSource ==
    (op = "GetBSDF" /\ mtl.kind = "Hair") =>
        IF "sigma_a" \in mtl.tex
        THEN /\ ~fatal
             /\ HairSources \cap DOMAIN args = {"sigma_a"}
             /\ ret.bxdf.sigma_a.from = "sigma_a"
             /\ ret.bxdf.sigma_a.v = ClampZero(args.sigma_a)
        ELSE IF "color" \in mtl.tex
        THEN /\ ~fatal
             /\ HairSources \cap DOMAIN args = {"color"}
             /\ ret.bxdf.sigma_a.from = "SigmaAFromReflectance"
             /\ ret.bxdf.sigma_a.c = ClampSpectrum(args.color, 0, One)
        ELSE IF {"eumelanin", "pheomelanin"} \cap mtl.tex # {}
        THEN /\ ~fatal
             /\ HairSources \cap DOMAIN args = {"eumelanin", "pheomelanin"} \cap mtl.tex
             /\ ret.bxdf.sigma_a.from = "SigmaAFromConcentration"
             /\ ret.bxdf.sigma_a.ce =
                   (IF Evaluates("eumelanin") THEN NonNegative(args.eumelanin) ELSE 0)
             /\ ret.bxdf.sigma_a.cp =
                   (IF Evaluates("pheomelanin") THEN NonNegative(args.pheomelanin) ELSE 0)
        ELSE fatal /\ ret = Null

\* a material holding all four textures took the absorption texture only; the
\* other cases are reached as well
C15_Witness ==
    /\ op = "GetBSDF"
    /\ mtl.kind = "Hair"
    /\ HairSources \subseteq mtl.tex
    /\ HairSources \cap DOMAIN args = {"sigma_a"}
    /\ ret.bxdf.sigma_a.from = "sigma_a"

\* a derived k is 0; one derived k is less than another
KIsZero(k) == ~k.nan /\ k.num = 0 /\ k.den > 0
KLess(a, b) ==
    /\ ~a.nan
    /\ ~b.nan
    /\ a.den > 0
    /\ IF b.den = 0 THEN b.num > 0 ELSE a.num * b.den < b.num * a.den

\* C16: ConductorMaterial::GetBSDF on a material without an
\* index-of-refraction texture hands over eta = 1 and a k derived from the
\* reflectance r, with k = 0 for r = 0 and k(r1) < k(r2) for
\* 0 <= r1 < r2 <= 1; on a material with an index-of-refraction texture it
\* hands over the values of the eta and k textures and does not evaluate the
\* reflectance texture.
C16_ConductorIndex ==
    (op = "GetBSDF" /\ mtl.kind = "Conductor") =>
        IF "eta" \in mtl.tex
        THEN /\ ret.bxdf.eta = args.eta
             /\ ret.bxdf.k.from = "k"
             /\ ret.bxdf.k.v = args.k
             /\ ~Evaluates("reflectance")
        ELSE /\ ret.bxdf.eta = ConstantSampledSpectrum(One)
             /\ ret.bxdf.k.from = "reflectance"
             /\ \A i \in 1..NSamples :
                   args.reflectance[i] = 0 => KIsZero(ret.bxdf.k.v[i])
             /\ \A i, j \in 1..NSamples :
                   (/\ 0 <= args.reflectance[i]
                    /\ args.reflectance[i] < args.reflectance[j]
                    /\ args.reflectance[j] <= One) =>
                       KLess(ret.bxdf.k.v[i], ret.bxdf.k.v[j])

\* a reflectance of 0 at one wavelength and a larger one at another gave
\* k = 0 and a larger k
C16_Witness ==
    /\ op = "GetBSDF"
    /\ mtl.kind = "Conductor"
    /\ "eta" \notin mtl.tex
    /\ \E i, j \in 1..NSamples :
          /\ args.reflectance[i] = 0
          /\ args.reflectance[j] > 0
          /\ args.reflectance[j] <= One
          /\ KIsZero(ret.bxdf.k.v[i])
          /\ KLess(ret.bxdf.k.v[i], ret.bxdf.k.v[j])

\* the last ChooseMaterial call was made at the point, direction and
\* sub-materials of the call kept in seen: both have the same hash u
SameHash ==
    /\ op = "ChooseMaterial"
    /\ seen.type = "call"
    /\ seen.p = ctx.p
    /\ seen.wo = ctx.wo
    /\ seen.materials = mtl.materials

\* C18: for an amount strictly between 0 and 1, ChooseMaterial returns
\* sub-material 0 exactly when amount < u and sub-material 1 otherwise, with
\* u in [0,1) the hash of the point, the outgoing direction and the two
\* sub-materials; of two calls with the same u, if the one with the smaller
\* amount (any amount, the endpoints included) chose sub-material 1, so did
\* the other, and if the one with the larger amount chose sub-material 0, so
\* did the other.
C18_Threshold ==
    /\ (op = "ChooseMaterial" /\ 0 < args.amount /\ args.amount < One) =>
          LET u == HashFloat(ctx.p, ctx.wo, mtl.materials[1], mtl.materials[2])
          IN  /\ hashed
              /\ 0 <= u
              /\ u < One
              /\ ret = (IF args.amount < u THEN mtl.materials[1] ELSE mtl.materials[2])
    /\ (SameHash /\ seen.amount <= args.amount /\ seen.ret = mtl.materials[2]) =>
          ret = mtl.materials[2]
    /\ (SameHash /\ seen.amount >= args.amount /\ seen.ret = mtl.materials[1]) =>
          ret = mtl.materials[1]

\* of two calls with the same hash and amounts strictly between 0 and 1, the
\* one with the smaller amount chose sub-material 0 and the other one 1
C18_Witness ==
    /\ SameHash
    /\ 0 < seen.amount
    /\ seen.amount < args.amount
    /\ args.amount < One
    /\ seen.ret = mtl.materials[1]
    /\ ret = mtl.materials[2]
    /\ mtl.materials[1] # mtl.materials[2]

====
